---- MODULE Spec2Model ----
(***************************************************************************)
(* Model of the Jira tickets & worklogs tool: the OAuth2/PKCE session      *)
(* manager (utils/auth.py) on top of the shared credential store           *)
(* (utils/storage.py), driven by Streamlit script runs (app.py).           *)
(*                                                                         *)
(* Python's None / a missing dict key is the empty sequence <<>>, a        *)
(* present value x is <<x>>.                                               *)
(***************************************************************************)
EXTENDS Integers, Sequences, FiniteSets, TLC

\* ----------------------------------------------------------------- bounds
MaxGrants == 1       \* tokens the identity provider grants, at least

MaxWorklogs == 2     \* worklogs the tracker creates, at most
MaxRows == 2         \* rows of an uploaded CSV file, at most
MaxDigits == 7       \* digits in a row in a label text, at most
MaxLabels == 3       \* labels of an issue, at most
MaxStored == 2       \* rows of a table of the schema model, at most

\* ------------------------------------------------------ program constants
STATE_TTL == 600           \* fernet.decrypt(..., ttl=600)
REFRESH_MARGIN == 60       \* expires_at - now <= 60
DEFAULT_EXPIRES_IN == 3600 \* tok.get("expires_in", 3600)
QUARTER_SECONDS == 900     \* int(round(raw_hours * 3600 / 900) * 900)
P_LABEL_DIGITS == 6        \* re.compile(r"^P\d{6}$")

\* ------------------------------------------------------------ input sets
Sessions == {"s1", "s2"}
Codes == {"code1"}
None == <<>>
Some(x) == <<x>>
\* an expires_in the provider may answer with: one second over the margin
SHORT_EXPIRES_IN == REFRESH_MARGIN + 1

\* What the identity provider's token endpoint may answer (requests.post):
\* a timeout raises, otherwise a status and, on 200, a JSON body.
\* Its n-th grant carries a fresh access token, a fresh refresh token or
\* none, and an expires_in or none; e says which of these the provider of
\* the scenario does, how many grants it makes, and whether requests fail
\* while it still grants.
TokenBodies(n, e) ==
    [access_token : {"at" \o ToString(n)},
     refresh_token : {IF w THEN Some("rt" \o ToString(n)) ELSE None : w \in e.with_refresh},
     expires_in : e.expires_in]
TokenResponses(n, e) ==
    (IF e.faults \/ n >= e.grants
     THEN {[kind |-> "timeout", status |-> 0, body |-> None],
           [kind |-> "http", status |-> 400, body |-> None]}
     ELSE {})
    \cup IF n < e.grants
         THEN {[kind |-> "http", status |-> 200, body |-> Some(b)] : b \in TokenBodies(n + 1, e)}
         ELSE {}
NoResponse == [kind |-> "none", status |-> 0, body |-> None]

\* What the accessible-resources endpoint may answer (requests.get).
ResourceLists == {<<>>, <<"cloud2", "cloud1">>}
ResourceResponses(e) ==
    (IF e.faults
     THEN {[kind |-> "timeout", status |-> 0, json |-> <<>>],
           [kind |-> "http", status |-> 500, json |-> <<>>],
           [kind |-> "http", status |-> 200, json |-> <<>>]}
     ELSE {})
    \cup {[kind |-> "http", status |-> 200, json |-> l] : l \in ResourceLists \ {<<>>}}

\* The configurations the configuration provider may supply (app.py CFG).
Configs ==
    [client_id : {"", "cid"}, client_secret : {"", "sec"},
     redirect_uri : {"", "uri"}, fernet_key : {"", "K"}]
FullConfig(secret) ==
    [client_id |-> "cid", client_secret |-> secret,
     redirect_uri |-> "uri", fernet_key |-> "K"]

\* A scenario fixes what the environment of the program may do: which
\* browser sessions run, the configuration, the instants the clock is read
\* at, what users type as e-mail, what os.urandom yields, and the
\* provider's grants, whether requests to the provider fail, and whether
\* authorization links are around whose state carries no code_verifier
\* (the ones _handle_callback falls back to the session for).
Scenario(sessions, configs, instants, emails, verifiers, with_refresh, expires_in, grants, faults, legacy) ==
    [sessions |-> sessions, configs |-> configs, instants |-> instants,
     emails |-> emails, verifiers |-> verifiers, with_refresh |-> with_refresh,
     expires_in |-> expires_in, grants |-> grants, faults |-> faults,
     legacy |-> legacy]

\* one session logging in, under every configuration without a secret; the
\* clock puts an encrypted state at the ages STATE_TTL - 1, STATE_TTL and
\* STATE_TTL + 1
LoginScenario ==
    Scenario({"s1"}, {c \in Configs : c.client_secret = ""},
             {0, STATE_TTL - 1, STATE_TTL, STATE_TTL + 1},
             {"a@x", ""}, {1}, {TRUE}, {None, Some(SHORT_EXPIRES_IN)}, MaxGrants, TRUE, FALSE)

\* one session logging in and refreshing its token, as a public and as a
\* confidential client; the clock puts a token REFRESH_MARGIN + 1 and
\* REFRESH_MARGIN seconds before its expiry
RefreshScenario ==
    Scenario({"s1"}, {FullConfig(""), FullConfig("sec")}, {0, 1},
             {"a@x"}, {1}, {TRUE, FALSE}, {None, Some(SHORT_EXPIRES_IN)},
             MaxGrants + 1, TRUE, FALSE)

\* two sessions of two users on the one credential store, with a provider
\* that answers every request while it still grants
SharedScenario ==
    Scenario({"s1", "s2"}, {FullConfig("")}, {0, 1},
             {"a@x", "b@x"}, {1}, {TRUE}, {Some(SHORT_EXPIRES_IN)},
             MaxGrants + 2, FALSE, FALSE)

\* one session of a user who logs in and works in the app body, with a
\* provider that answers every request while it still grants
AppScenario ==
    Scenario({"s1"}, {FullConfig("")}, {0},
             {"a@x", ""}, {1}, {TRUE}, {None}, 1, FALSE, FALSE)

\* one session logging in with links whose state carries the verifier and
\* with links whose state carries none, the session holding a verifier of
\* its own or not
LegacyScenario ==
    Scenario({"s1"}, {FullConfig("")}, {0, 1},
             {"a@x"}, {1, 2}, {TRUE}, {None}, MaxGrants, TRUE, TRUE)

VARIABLES
    now,           \* int(time.time())
    cfg,           \* CFG of app.py, fixed for the life of the process
    ss,            \* st.session_state of each browser session
    auth,          \* the AtlassianAuth object of each session's script run
    query_params,  \* st.query_params of each session
    pc,            \* where each session's script run stands
    user_oauth,    \* table user_oauth, rows in id order
    grants,        \* tokens the identity provider has granted so far
    env,           \* the scenario, fixed from the start
    used,          \* history: the encrypted state each session last logged in with
    last,          \* history: what the last step did
    undo_worklog,  \* table undo_worklog, rows in id order
    jira,          \* the tracker: the worklogs it holds, how many it created
    job,           \* the local variables of a running bulk loop, per session
    app            \* history: what the last step did, if one of the app body

vars == <<now, cfg, ss, auth, query_params, pc, user_oauth, grants,
          env, used, last, undo_worklog, jira, job, app>>

\* ------------------------------------------------------------ Fernet
\* Fernet(key).encrypt(payload) at time ts.
FernetEncrypt(key, ts, payload) == [key |-> key, ts |-> ts, payload |-> payload]

\* A state that was not produced with the configured key.
ForgedState == FernetEncrypt("other", 0,
                 [email |-> "a@x", ts |-> 0, code_verifier |-> None])

\* Fernet(key).decrypt(tok, ttl) at time t: None stands for InvalidToken.
\* (Issued states never carry a timestamp ahead of the clock.)
FernetDecryptNoTtl(key, tok, ttl, t) ==
    IF tok.key = key THEN Some(tok.payload) ELSE None
FernetDecrypt(key, tok, ttl, t) ==
    IF tok.key = key /\ ~(tok.ts + ttl < t) THEN Some(tok.payload) ELSE None

\* ------------------------------------------------------------ storage.py
\* Storage.save_oauth: one INSERT into user_oauth (ids are AUTOINCREMENT /
\* SERIAL, so the new row is the last one in id order).
\* (saved_at, which nothing reads, is left out of the rows.)
SaveOauth(rows, email, token, cloud) ==
    Append(rows, [email |-> IF email = "" THEN "unknown" ELSE email,
                  token_json |-> token,
                  cloud_json |-> cloud])

\* Storage.update_oauth_token: UPDATE ... WHERE id = (SELECT id ... ORDER BY
\* id DESC LIMIT 1); no row is touched when the table is empty.
UpdateOauthToken(rows, token) ==
    IF rows = <<>> THEN rows
    ELSE [rows EXCEPT ![Len(rows)].token_json = token]

\* Storage.set_last_worklog: one INSERT into undo_worklog at time t.
SetLastWorklog(rows, email, worklog_id, issue_key, t) ==
    Append(rows, [email |-> email, issue_key |-> issue_key,
                  worklog_id |-> worklog_id, saved_at |-> t])

\* SELECT ... WHERE email = ? ORDER BY id DESC LIMIT 1: the position of the
\* row it selects, 0 when there is none.
LatestBySavedAt(rows, email) ==
    LET own == {i \in DOMAIN rows : rows[i].email = email} IN
    IF own = {} THEN 0
    ELSE CHOOSE i \in own : \A j \in own :
            \/ rows[j].saved_at < rows[i].saved_at
            \/ rows[j].saved_at = rows[i].saved_at /\ i <= j
LatestOf(rows, email) ==
    LET own == {i \in DOMAIN rows : rows[i].email = email} IN
    IF own = {} THEN 0 ELSE CHOOSE i \in own : \A j \in own : j <= i

\* Storage.get_last_worklog
GetLastWorklog(rows, email) ==
    LET i == LatestOf(rows, email) IN
    IF i = 0 THEN None
    ELSE Some([issue_key |-> rows[i].issue_key, worklog_id |-> rows[i].worklog_id])

\* Storage.clear_last_worklog: DELETE ... WHERE id IN (that row)
ClearAllWorklogs(rows, email) ==
    SelectSeq(rows, LAMBDA r : r.email # email)
ClearLastWorklog(rows, email) ==
    LET i == LatestOf(rows, email) IN
    IF i = 0 THEN rows
    ELSE SubSeq(rows, 1, i - 1) \o SubSeq(rows, i + 1, Len(rows))

\* ------------------------------------------------------------ auth.py
\* AtlassianAuth.is_authenticated
IsAuthenticated(a) == a._token # None /\ a._token[1].access_token # ""

\* AtlassianAuth._post_token: the request sent to the token endpoint.
PostTokenPublic(c, data) ==
    [authorization |-> "", data |-> ("client_id" :> c.client_id) @@ data]
PostToken(c, data) ==
    IF c.client_secret # "" THEN
        [authorization |-> "Basic",
         data |-> [k \in DOMAIN data \ {"client_secret"} |-> data[k]]]
    ELSE
        [authorization |-> "",
         data |-> ("client_id" :> c.client_id) @@ data]

\* tok = r.json(); tok["expires_at"] = now + int(tok.get("expires_in", 3600))
ExpiresIn(body) ==
    IF body.expires_in = None THEN DEFAULT_EXPIRES_IN ELSE body.expires_in[1]
NewToken(body, t) ==
    [access_token |-> body.access_token,
     refresh_token |-> body.refresh_token,
     expires_in |-> body.expires_in,
     expires_at |-> t + ExpiresIn(body)]

\* {"id": cloud["id"], "url": cloud.get("url",""), "name": cloud.get("name","")}
\* of the first tenant descriptor; a descriptor is named by its id.
LastCloud(json) == [id |-> json[Len(json)]]
FirstCloud(json) == [id |-> json[1]]

\* What a call leaves behind: the object's fields, the session state, the
\* table, the requests sent to the token endpoint, how it ended, what it
\* returned ("None", "True", "False") and whether an exception left it.
Result(a, sst, rows, posts, outcome, ret, raised) ==
    [auth |-> a, ss |-> sst, rows |-> rows, posts |-> posts,
     outcome |-> outcome, ret |-> ret, raised |-> raised]

\* state.get("code_verifier") or st.session_state.get("pkce_verifier", "")
CodeVerifierSessionFirst(state, sst) ==
    IF sst.pkce_verifier # None THEN sst.pkce_verifier ELSE state.code_verifier
CodeVerifier(state, sst) ==
    IF state.code_verifier # None THEN state.code_verifier ELSE sst.pkce_verifier

\* _handle_callback, once the token is obtained: resolve the tenant, then
\* set the session and persist (rr = the accessible-resources answer).
ResolveAndPersistEarly(a, sst, rows, state, tok, req, rr) ==
    LET a1 == [a EXCEPT !._token = Some(tok)]
        sst1 == [sst EXCEPT !._oauth_token = Some(tok)] IN
    IF rr.kind = "timeout" THEN
        Result(a1, sst1, rows, <<req>>, "resources_timeout", "None", TRUE)
    ELSE IF rr.status # 200 \/ rr.json = <<>> THEN
        Result(a1, sst1, rows, <<req>>, "no_resources", "None", FALSE)
    ELSE LET cloud == FirstCloud(rr.json) IN
        Result([_token |-> Some(tok), _cloud |-> Some(cloud)],
               [sst EXCEPT !._oauth_token = Some(tok), !._cloud = Some(cloud)],
               SaveOauth(rows, state.email, tok, cloud),
               <<req>>, "ok", "None", FALSE)
ResolveAndPersist(a, sst, rows, state, tok, req, rr) ==
    IF rr.kind = "timeout" THEN
        Result(a, sst, rows, <<req>>, "resources_timeout", "None", TRUE)
    ELSE IF rr.status # 200 \/ rr.json = <<>> THEN
        Result(a, sst, rows, <<req>>, "no_resources", "None", FALSE)
    ELSE LET cloud == FirstCloud(rr.json) IN
        Result([_token |-> Some(tok), _cloud |-> Some(cloud)],
               [sst EXCEPT !._oauth_token = Some(tok), !._cloud = Some(cloud)],
               SaveOauth(rows, state.email, tok, cloud),
               <<req>>, "ok", "None", FALSE)

\* _handle_callback, the token exchange (tr = the token endpoint's answer).
ExchangeCode(c, a, sst, rows, code, state, code_verifier, tr, rr, t) ==
    LET req == PostToken(c, [grant_type |-> "authorization_code",
                             code |-> code,
                             redirect_uri |-> c.redirect_uri,
                             code_verifier |-> code_verifier]) IN
    IF tr.kind = "timeout" THEN
        Result(a, sst, rows, <<req>>, "exchange_timeout", "None", TRUE)
    ELSE IF tr.status # 200 THEN
        Result(a, sst, rows, <<req>>, "exchange_failed", "None", FALSE)
    ELSE ResolveAndPersist(a, sst, rows, state, NewToken(tr.body[1], t), req, rr)

\* AtlassianAuth._handle_callback(code, enc_state), with tr and rr the
\* answers of the token endpoint and of the accessible-resources endpoint.
HandleCallback(c, a, sst, rows, code, enc_state, tr, rr, t) ==
    IF c.fernet_key = "" THEN
        \* self.fernet is None: AttributeError
        Result(a, sst, rows, <<>>, "no_fernet", "None", TRUE)
    ELSE LET dec == FernetDecrypt(c.fernet_key, enc_state, STATE_TTL, t) IN
    IF dec = None THEN
        Result(a, sst, rows, <<>>, "invalid_state", "None", FALSE)
    ELSE LET code_verifier == CodeVerifier(dec[1], sst) IN
    IF code_verifier = None THEN
        Result(a, sst, rows, <<>>, "pkce_missing", "None", FALSE)
    ELSE ExchangeCode(c, a, sst, rows, code, dec[1], code_verifier[1], tr, rr, t)

\* AtlassianAuth.refresh_token(), with tr the token endpoint's answer.
RefreshTokenDropStale(c, a, sst, rows, tr, t) ==
    IF a._token = None \/ a._token[1].refresh_token = None THEN
        Result(a, sst, rows, <<>>, "refresh_skipped", "False", FALSE)
    ELSE LET req == PostToken(c, [grant_type |-> "refresh_token",
                                  refresh_token |-> a._token[1].refresh_token[1]]) IN
    IF tr.kind = "timeout" THEN
        Result(a, sst, rows, <<req>>, "refresh_timeout", "None", TRUE)
    ELSE IF tr.status # 200 THEN
        Result([a EXCEPT !._token = None], [sst EXCEPT !._oauth_token = None],
               rows, <<req>>, "refresh_failed", "False", FALSE)
    ELSE LET tok == NewToken(tr.body[1], t) IN
        Result([a EXCEPT !._token = Some(tok)],
               [sst EXCEPT !._oauth_token = Some(tok)],
               UpdateOauthToken(rows, tok),
               <<req>>, "refreshed", "True", FALSE)
RefreshToken(c, a, sst, rows, tr, t) ==
    IF a._token = None \/ a._token[1].refresh_token = None THEN
        Result(a, sst, rows, <<>>, "refresh_skipped", "False", FALSE)
    ELSE LET req == PostToken(c, [grant_type |-> "refresh_token",
                                  refresh_token |-> a._token[1].refresh_token[1]]) IN
    IF tr.kind = "timeout" THEN
        Result(a, sst, rows, <<req>>, "refresh_timeout", "None", TRUE)
    ELSE IF tr.status # 200 THEN
        Result(a, sst, rows, <<req>>, "refresh_failed", "False", FALSE)
    ELSE LET tok == NewToken(tr.body[1], t) IN
        Result([a EXCEPT !._token = Some(tok)],
               [sst EXCEPT !._oauth_token = Some(tok)],
               UpdateOauthToken(rows, tok),
               <<req>>, "refreshed", "True", FALSE)

\* self._token.get("expires_at", 0) - int(time.time()) <= 60
NearExpiryStrict(a, t) == a._token[1].expires_at - t < REFRESH_MARGIN
NearExpiry(a, t) == a._token[1].expires_at - t <= REFRESH_MARGIN

\* AtlassianAuth.logout
LogoutSessionOnly(a, sst) ==
    [auth |-> a, ss |-> [sst EXCEPT !._oauth_token = None, !._cloud = None]]
Logout(a, sst) ==
    [auth |-> [_token |-> None, _cloud |-> None],
     ss |-> [sst EXCEPT !._oauth_token = None, !._cloud = None]]

\* AtlassianAuth.get_headers(), with tr the token endpoint's answer should a
\* refresh be triggered. calls = how often refresh_token() was invoked;
\* headers = the Authorization bearer value returned ({} is None).
GetHeaders(c, a, sst, rows, tr, t) ==
    IF a._token = None THEN
        [res |-> Result(a, sst, rows, <<>>, "no_token", "None", FALSE),
         calls |-> 0, headers |-> None]
    ELSE IF NearExpiry(a, t) THEN
        LET r == RefreshToken(c, a, sst, rows, tr, t) IN
        [res |-> r, calls |-> 1,
         headers |-> IF r.raised THEN None
                     ELSE Some(r.auth._token[1].access_token)]
    ELSE
        [res |-> Result(a, sst, rows, <<>>, "fresh", "None", FALSE),
         calls |-> 0, headers |-> Some(a._token[1].access_token)]

\* AtlassianAuth.render_login_flow(user_email): click = the "Abmelden"
\* button was pressed, n = the value os.urandom yields for the verifier.
\* url = the encrypted state of the authorization link offered. (The
\* state's nonce, which nothing reads, is left out.)
Rendered(a, sst, url, outcome) ==
    [auth |-> a, ss |-> sst, url |-> url, outcome |-> outcome]

RenderLoginFlow(c, a, sst, user_email, click, n, t) ==
    IF c.client_id = "" \/ c.redirect_uri = "" THEN
        Rendered(a, sst, None, "config_error")
    ELSE IF IsAuthenticated(a) THEN
        IF click THEN
            LET o == Logout(a, sst) IN Rendered(o.auth, o.ss, None, "logged_out")
        ELSE Rendered(a, sst, None, "logged_in")
    ELSE LET sst1 == [sst EXCEPT !.pkce_verifier = Some(n)] IN
    IF c.fernet_key = "" THEN
        Rendered(a, sst1, None, "no_fernet_key")
    ELSE LET state_obj == [email |-> IF user_email = "" THEN "unknown" ELSE user_email,
                           ts |-> t,
                           code_verifier |-> Some(n)]
             enc_state == FernetEncrypt(c.fernet_key, t, state_obj) IN
        Rendered(a, sst1, Some(enc_state), "link")

\* ------------------------------------------------------------ jira_api.py
\* A str is the sequence of its characters. Whitespace is what str.strip()
\* removes; a digit is what \d matches in a str pattern: any character of
\* Unicode category Nd, the ARABIC-INDIC DIGIT THREE among them.
Whitespace == {" ", "\n"}
Digits == {"1", "2", "arabic-indic 3"}

RECURSIVE LStrip(_)
LStrip(s) == IF s # <<>> /\ Head(s) \in Whitespace THEN LStrip(Tail(s)) ELSE s
RECURSIVE RStrip(_)
RStrip(s) ==
    IF s # <<>> /\ s[Len(s)] \in Whitespace THEN RStrip(SubSeq(s, 1, Len(s) - 1)) ELSE s
\* str.strip()
Strip(s) == LStrip(RStrip(s))

\* P\d{6} at the start of s
MatchesPDigits(s) ==
    /\ Len(s) >= 1 + P_LABEL_DIGITS
    /\ s[1] = "P"
    /\ \A i \in 2..(1 + P_LABEL_DIGITS) : s[i] \in Digits

\* P_LABEL_RE.match(s): ^ is the start of s, $ its end or the place before
\* a newline that ends it
ReMatchPrefix(s) == MatchesPDigits(s)
ReMatch(s) ==
    /\ MatchesPDigits(s)
    /\ \/ Len(s) = 1 + P_LABEL_DIGITS
       \/ Len(s) = 2 + P_LABEL_DIGITS /\ s[Len(s)] = "\n"

\* is_p_label
IsPLabel(s) == ReMatch(Strip(s))

\* extract_p_labels, strip_p_labels
ExtractPLabels(labels) == SelectSeq(labels, IsPLabel)
StripPLabelsUntrimmed(labels) == SelectSeq(labels, LAMBDA l : ~ReMatch(l))
StripPLabels(labels) == SelectSeq(labels, LAMBDA l : ~IsPLabel(l))

\* compute_new_labels
ComputeNewLabelsFirst(old_labels, new_plabel) ==
    (IF new_plabel # <<>> THEN <<new_plabel>> ELSE <<>>) \o StripPLabels(old_labels)
ComputeNewLabelsKeep(old_labels, new_plabel) ==
    old_labels \o (IF new_plabel # <<>> THEN <<new_plabel>> ELSE <<>>)
ComputeNewLabels(old_labels, new_plabel) ==
    StripPLabels(old_labels) \o (IF new_plabel # <<>> THEN <<new_plabel>> ELSE <<>>)

\* The texts is_p_label is tried on: whitespace or none, a first character
\* or none, a row of one digit with at most one character of it replaced,
\* and whitespace or none.
Rep(c, n) == [i \in 1..n |-> c]
LabelTexts ==
    {pre \o head \o [Rep(d, n) EXCEPT ![k] = IF c = "" THEN d ELSE c] \o post :
        pre \in {<<>>, <<" ">>},
        head \in {<<>>, <<"P">>, <<"p">>},
        d \in Digits \ {"2"},
        n \in (P_LABEL_DIGITS - 1)..MaxDigits,
        k \in {1, P_LABEL_DIGITS - 1},
        c \in {"", "x", " "},
        post \in {<<>>, <<" ">>, <<" ", "\n">>}}

\* The labels of the issues compute_new_labels is tried on, and the new
\* labels entered.
SomeLabels ==
    {<<"P", "1", "1", "1", "1", "1", "1">>,
     <<" ", "P", "2", "2", "2", "2", "2", "2">>,
     <<"p", "1", "1", "1", "1", "1", "1">>,
     <<"f", "o", "o">>}
LabelLists == UNION {[1..n -> SomeLabels] : n \in 0..MaxLabels}
NewLabels == {<<>>, <<"P", "2", "2", "2", "2", "2", "2">>, <<"f", "o", "o">>, <<" ">>}

Issues == {"T-1", "T-2"}
\* profile.get('emailAddress', '') of api.get_myself(): {} when it failed
ProfileEmails == {"b@x", ""}

\* The tracker holds worklogs, each under its issue, and numbers the ones it
\* creates. (An id is kept as the response's "id" member, <<id>>.)
NoWorklogs == [worklogs |-> {}, created |-> 0]

\* What the tracker may answer (requests.request): a timeout raises,
\* otherwise a status and, for a created worklog, a JSON body with its id.
TrackerFailures ==
    {[kind |-> "timeout", status |-> 0, id |-> None],
     [kind |-> "http", status |-> 404, id |-> None]}
AddWorklogResponses(j) ==
    TrackerFailures
    \cup IF j.created < MaxWorklogs
         THEN {[kind |-> "http", status |-> 201,
                id |-> Some("w" \o ToString(j.created + 1))]}
         ELSE {}
DeleteWorklogResponses(j, issue_key, worklog_id) ==
    TrackerFailures
    \cup IF [issue_key |-> issue_key, id |-> worklog_id] \in j.worklogs
         THEN {[kind |-> "http", status |-> 204, id |-> None]}
         ELSE {}

\* The tracker after answering resp to a request on a worklog.
Tracker(j, method, issue_key, worklog_id, resp) ==
    IF resp.kind # "http" \/ resp.status >= 400 THEN j
    ELSE IF method = "POST" THEN
        [worklogs |-> j.worklogs \cup {[issue_key |-> issue_key, id |-> resp.id]},
         created |-> j.created + 1]
    ELSE [j EXCEPT !.worklogs = @ \ {[issue_key |-> issue_key, id |-> worklog_id]}]

\* JiraAPI._req, given g = what self.auth.get_headers() did and resp = the
\* tracker's answer: (ok, res) unless an exception leaves it; of res, the
\* id of a created worklog is kept.
ApiReqAlwaysOk(g, resp) ==
    IF g.res.raised THEN
        [sent |-> FALSE, raised |-> TRUE, ok |-> FALSE, id |-> None]
    ELSE IF resp.kind = "timeout" THEN
        [sent |-> TRUE, raised |-> TRUE, ok |-> FALSE, id |-> None]
    ELSE
        [sent |-> TRUE, raised |-> FALSE, ok |-> TRUE, id |-> resp.id]
ApiReq(g, resp) ==
    IF g.res.raised THEN
        [sent |-> FALSE, raised |-> TRUE, ok |-> FALSE, id |-> None]
    ELSE IF resp.kind = "timeout" THEN
        [sent |-> TRUE, raised |-> TRUE, ok |-> FALSE, id |-> None]
    ELSE IF resp.status >= 400 THEN
        [sent |-> TRUE, raised |-> FALSE, ok |-> FALSE, id |-> None]
    ELSE
        [sent |-> TRUE, raised |-> FALSE, ok |-> TRUE, id |-> resp.id]

\* ------------------------------------------------------------ storage.py, the schema
REQUIRED_USER_OAUTH_COLS == {"email", "cloud_id", "cloud_url", "cloud_name", "token_json", "cloud_json", "saved_at"}
REQUIRED_UNDO_COLS == {"email", "issue_key", "worklog_id", "saved_at"}

\* A table of the database: whether it exists, its columns, and its rows,
\* each a value per column.
NoTable == [exists |-> FALSE, cols |-> {}, rows |-> <<>>]
Table(cols, n) == [exists |-> TRUE, cols |-> cols, rows |-> [i \in 1..n |-> [c \in cols |-> "v"]]]

\* The databases a deployment may find at its start: each table absent,
\* as this release creates it, as an earlier release left it (without some
\* column, user_oauth with site_url), empty or with a row.
UserOauthTables ==
    {NoTable} \cup {Table({"id"} \cup cols, n) :
                      cols \in {REQUIRED_USER_OAUTH_COLS,
                                REQUIRED_USER_OAUTH_COLS \ {"cloud_json"},
                                REQUIRED_USER_OAUTH_COLS \ {"saved_at"},
                                REQUIRED_USER_OAUTH_COLS \cup {"site_url"},
                                {"email", "site_url", "token_json"}},
                      n \in 0..1}
UndoTables ==
    {NoTable} \cup {Table({"id"} \cup cols, n) :
                      cols \in {REQUIRED_UNDO_COLS, REQUIRED_UNDO_COLS \ {"saved_at"}},
                      n \in 0..1}
Databases == [user_oauth : UserOauthTables, undo_worklog : UndoTables]

\* CREATE TABLE IF NOT EXISTS table (cols)
CreateTableIfNotExists(table, cols) ==
    IF table.exists THEN table ELSE Table(cols, 0)

\* ALTER TABLE table ADD COLUMN col for every col of cols the table lacks:
\* the rows get NULL in it
PgEnsureColumns(table, cols) ==
    [exists |-> TRUE,
     cols |-> table.cols \cup cols,
     rows |-> [i \in DOMAIN table.rows |->
                 [c \in table.cols \cup cols |->
                    IF c \in table.cols THEN table.rows[i][c] ELSE "NULL"]]]

\* Storage._init
StorageInit(use_pg, db) ==
    IF use_pg THEN
        [user_oauth |-> PgEnsureColumns(
                            PgEnsureColumns(CreateTableIfNotExists(db.user_oauth, {"id"}),
                                            REQUIRED_USER_OAUTH_COLS),
                            {"site_url"}),
         undo_worklog |-> PgEnsureColumns(CreateTableIfNotExists(db.undo_worklog, {"id"}),
                                          REQUIRED_UNDO_COLS)]
    ELSE
        [user_oauth |-> CreateTableIfNotExists(db.user_oauth,
                                               {"id"} \cup REQUIRED_USER_OAUTH_COLS),
         undo_worklog |-> CreateTableIfNotExists(db.undo_worklog,
                                                 {"id"} \cup REQUIRED_UNDO_COLS)]

\* INSERT INTO table (insert_cols): the statement's columns, whether it
\* raised (a column the table has not, or no column at all), and the
\* database after it
Inserted(db, name, insert_cols) ==
    LET table == db[name]
        raised == insert_cols = {} \/ ~(insert_cols \subseteq table.cols) IN
    [table |-> name, insert_cols |-> insert_cols, raised |-> raised,
     db |-> IF raised THEN db
            ELSE [db EXCEPT ![name].rows =
                    Append(@, [c \in table.cols |->
                                 IF c \in insert_cols THEN "v" ELSE "NULL"])]]

\* Storage._dynamic_insert: of the record's keys, the ones that are columns
\* of the table
DynamicInsert(db, name, keys) == Inserted(db, name, keys \cap db[name].cols)

\* Storage.save_oauth, the statement (a retry follows only
\* UndefinedColumn, which the filtered columns cannot raise)
SaveOauthInsert(db) ==
    DynamicInsert(db, "user_oauth",
                  {"email", "cloud_id", "cloud_url", "cloud_name", "site_url",
                   "token_json", "cloud_json", "saved_at"})

\* Storage.set_last_worklog, the statement
SetLastWorklogInsert(db) ==
    Inserted(db, "undo_worklog", {"email", "issue_key", "worklog_id", "saved_at"})

\* ------------------------------------------------------------ csv_utils.py
\* A parsed file: rows of Ticketnummer and "benötigte Zeit in h", the hours
\* in hundredths; dates, times and descriptions are valid and left out.
CsvRows == [Ticketnummer : Issues \cup {""}, hours : {25, 10}]
CsvFiles == UNION {[1..n -> CsvRows] : n \in 0..MaxRows}

\* validate_worklog_rows: the rows it reports (no Ticketnummer, or hours
\* that are no multiple of a quarter)
ValidateWorklogRows(df) ==
    {i \in DOMAIN df : df[i].Ticketnummer = "" \/ (df[i].hours * 4) % 100 # 0}

\* round(n / d) of Python: to the nearest, a tie to the even one
RoundHalfEven(n, d) ==
    LET q == n \div d
        r == n % d IN
    IF 2 * r < d THEN q
    ELSE IF 2 * r > d THEN q + 1
    ELSE IF q % 2 = 0 THEN q ELSE q + 1

\* seconds = int(round(raw_hours * 3600 / 900) * 900); 900 if seconds <= 0
CsvSeconds(hours) ==
    LET seconds == RoundHalfEven(hours * 4, 100) * QUARTER_SECONDS IN
    IF seconds <= 0 THEN QUARTER_SECONDS ELSE seconds

\* ------------------------------------------------------------ the machine
NoJob == [rows |-> <<>>, i |-> 0, results |-> <<>>]

\* history: the handler of the app body a step ran (op) in session s, the
\* identity it used, how it ended, the tracker requests it sent, the
\* results a bulk loop has collected so far, and what the loop reported at
\* its end.
Handled(op, s, email, outcome, reqs, results, report) ==
    [op |-> op, s |-> s, email |-> email, outcome |-> outcome, reqs |-> reqs,
     results |-> results, report |-> report]
Idle == Handled("", "", "", "", <<>>, <<>>, None)
\* history: the function of jira_api.py a step called, on what, and what
\* it returned
Called(op, args, ret) == [op |-> op, args |-> args, ret |-> ret]

NoSession == [_oauth_token |-> None, _cloud |-> None, pkce_verifier |-> None, pl_preview |-> None]
NoAuth == [_token |-> None, _cloud |-> None]
NoParams == <<>>

\* history: the operation a step ran (op) in session s, how it ended, what
\* it returned, the token-endpoint requests it sent, how often it invoked
\* refresh_token(), the headers or the authorization link it produced, the
\* encrypted state it was given and the answers it got.
Did(op, s, outcome, ret, posts, calls, headers, url, enc, tr, rr) ==
    [op |-> op, s |-> s, outcome |-> outcome, ret |-> ret, posts |-> posts,
     calls |-> calls, headers |-> headers, url |-> url, enc |-> enc,
     tr |-> tr, rr |-> rr]
NoRr == [kind |-> "none", status |-> 0, json |-> <<>>]

Quiet == Did("", "", "", "None", <<>>, 0, None, None, None, NoResponse, NoRr)

\* The encrypted states a browser may come back with at time t: any state
\* an authorization link of this deployment carried up to now (whatever
\* session rendered it), or one made elsewhere.
IssuableStates(c, t, e) ==
    IF c.client_id = "" \/ c.redirect_uri = "" \/ c.fernet_key = "" THEN {}
    ELSE {FernetEncrypt(c.fernet_key, ts,
                        [email |-> IF m = "" THEN "unknown" ELSE m, ts |-> ts,
                         code_verifier |-> v]) :
            ts \in {i \in e.instants : i <= t},
            m \in e.emails,
            v \in {Some(n) : n \in e.verifiers}
                  \cup (IF e.legacy THEN {None} ELSE {})}

InitIn(e) ==
    /\ env = e
    /\ now = 0
    /\ cfg \in e.configs
    /\ ss = [s \in Sessions |-> NoSession]
    /\ auth = [s \in Sessions |-> NoAuth]
    /\ query_params = [s \in Sessions |-> NoParams]
    /\ pc = [s \in Sessions |-> "idle"]
    /\ user_oauth = <<>>
    /\ grants = 0
    /\ used = [s \in Sessions |-> None]
    /\ last = Quiet
    /\ undo_worklog = <<>>
    /\ jira = NoWorklogs
    /\ job = [s \in Sessions |-> NoJob]
    /\ app = Idle

\* time passes
Tick ==
    /\ \E t \in env.instants : t > now /\ now' = t
    /\ last' = Quiet
    /\ UNCHANGED <<cfg, ss, auth, query_params, pc, user_oauth, grants, env, used>>
    /\ app' = Idle
    /\ UNCHANGED <<undo_worklog, jira, job>>

\* What the browser may load the page with: nothing new, or the redirect
\* target with ?code=..&state=..
Navigations(c, t, e) ==
    {None} \cup {Some([code |-> code, state |-> enc]) :
                   code \in Codes, enc \in IssuableStates(c, t, e) \cup {ForgedState}}

\* A script run starts, on a page load or a rerun. AtlassianAuth.__init__ up
\* to the callback: restore the session, handle the callback if the query
\* carries one, clear the query parameters. An exception ends the script
\* run where it is raised, and the query parameters stay.
Construct(s) ==
    /\ pc[s] = "idle"
    /\ \E nav \in Navigations(cfg, now, env) :
       LET a0 == [_token |-> ss[s]._oauth_token, _cloud |-> ss[s]._cloud]
           params == IF nav = None THEN query_params[s] ELSE nav
       IN
       IF params = NoParams THEN
           /\ auth' = [auth EXCEPT ![s] = a0]
           /\ pc' = [pc EXCEPT ![s] = "refresh"]
           /\ last' = Quiet
           /\ UNCHANGED <<ss, query_params, user_oauth, grants, used>>
       ELSE \E tr \in TokenResponses(grants, env), rr \in ResourceResponses(env) :
           LET q == params[1]
               r == HandleCallback(cfg, a0, ss[s], user_oauth, q.code, q.state, tr, rr, now)
               sent == r.posts # <<>>
               asked == sent /\ tr.kind = "http" /\ tr.status = 200
           IN
           \* an answer is drawn only for a request that is made
           /\ ~sent => tr.kind = "timeout"
           /\ ~asked => rr.kind = "timeout"
           /\ grants' = IF asked THEN grants + 1 ELSE grants
           /\ auth' = [auth EXCEPT ![s] = r.auth]
           /\ ss' = [ss EXCEPT ![s] = r.ss]
           /\ user_oauth' = r.rows
           /\ query_params' = [query_params EXCEPT ![s] =
                                 IF r.raised THEN params ELSE NoParams]
           /\ pc' = [pc EXCEPT ![s] = IF r.raised THEN "idle" ELSE "refresh"]
           /\ used' = [used EXCEPT ![s] = IF r.outcome = "ok"
                                           THEN Some(q.state) ELSE used[s]]
           /\ last' = Did("callback", s, r.outcome, r.ret, r.posts, 0, None, None, Some(q.state),
                           IF sent THEN tr ELSE NoResponse,
                           IF asked THEN rr ELSE NoRr)
    /\ UNCHANGED <<now, cfg, env>>
    /\ app' = Idle
    /\ UNCHANGED <<undo_worklog, jira, job>>

\* AtlassianAuth.__init__, the rest: auto-refresh shortly before expiry.
AutoRefresh(s) ==
    /\ pc[s] = "refresh"
    /\ IF auth[s]._token # None /\ NearExpiry(auth[s], now) THEN
           \E tr \in TokenResponses(grants, env) :
             LET r == RefreshToken(cfg, auth[s], ss[s], user_oauth, tr, now) IN
             /\ grants' = IF r.outcome = "refreshed" THEN grants + 1 ELSE grants
             /\ auth' = [auth EXCEPT ![s] = r.auth]
             /\ ss' = [ss EXCEPT ![s] = r.ss]
             /\ user_oauth' = r.rows
             /\ pc' = [pc EXCEPT ![s] = IF r.raised THEN "idle" ELSE "render"]
             /\ last' = Did("auto_refresh", s, r.outcome, r.ret, r.posts, 1, None, None, None,
                             IF r.posts # <<>> THEN tr ELSE NoResponse, NoRr)
       ELSE
           /\ pc' = [pc EXCEPT ![s] = "render"]
           /\ last' = Quiet
           /\ UNCHANGED <<auth, ss, user_oauth, grants>>
    /\ UNCHANGED <<now, cfg, query_params, env, used>>
    /\ app' = Idle
    /\ UNCHANGED <<undo_worklog, jira, job>>

\* app.py: auth.render_login_flow(user_email), then st.stop() unless the
\* session is authenticated.
Render(s) ==
    /\ pc[s] = "render"
    /\ \E user_email \in env.emails, click \in BOOLEAN, n \in env.verifiers :
         LET r == RenderLoginFlow(cfg, auth[s], ss[s], user_email, click, n, now) IN
         /\ auth' = [auth EXCEPT ![s] = r.auth]
         /\ ss' = [ss EXCEPT ![s] = r.ss]
         /\ pc' = [pc EXCEPT ![s] = IF IsAuthenticated(r.auth) THEN "app" ELSE "idle"]
         /\ last' = Did("render", s, r.outcome, "None", <<>>, 0, None, r.url, None,
                         NoResponse, NoRr)
    /\ UNCHANGED <<now, cfg, query_params, user_oauth, grants, env, used>>
    /\ app' = Idle
    /\ UNCHANGED <<undo_worklog, jira, job>>

\* JiraAPI._req: headers = self.auth.get_headers(), for any tracker call
\* of the script run.
ApiHeaders(s) ==
    /\ pc[s] = "app"
    /\ \E tr \in TokenResponses(grants, env) :
         LET g == GetHeaders(cfg, auth[s], ss[s], user_oauth, tr, now)
             r == g.res IN
         /\ grants' = IF r.outcome = "refreshed" THEN grants + 1 ELSE grants
         /\ auth' = [auth EXCEPT ![s] = r.auth]
         /\ ss' = [ss EXCEPT ![s] = r.ss]
         /\ user_oauth' = r.rows
         /\ pc' = [pc EXCEPT ![s] = IF r.raised THEN "idle" ELSE "app"]
         /\ last' = Did("get_headers", s, r.outcome, r.ret, r.posts, g.calls, g.headers,
                         None, None, IF r.posts # <<>> THEN tr ELSE NoResponse, NoRr)
    /\ UNCHANGED <<now, cfg, query_params, env, used>>
    /\ app' = Idle
    /\ UNCHANGED <<undo_worklog, jira, job>>

\* run_health_checks (the health tab of app.py): refresh_token() when fewer
\* than 60 seconds are left; an exception is caught there.
HealthCheck(s) ==
    /\ pc[s] = "app"
    /\ LET left == IF auth[s]._token = None THEN 0 - now
                   ELSE auth[s]._token[1].expires_at - now IN
       IF left < REFRESH_MARGIN THEN
           \E tr \in TokenResponses(grants, env) :
             LET r == RefreshToken(cfg, auth[s], ss[s], user_oauth, tr, now) IN
             /\ grants' = IF r.outcome = "refreshed" THEN grants + 1 ELSE grants
             /\ auth' = [auth EXCEPT ![s] = r.auth]
             /\ ss' = [ss EXCEPT ![s] = r.ss]
             /\ user_oauth' = r.rows
             /\ last' = Did("health", s, r.outcome, r.ret, r.posts, 1, None, None, None,
                             IF r.posts # <<>> THEN tr ELSE NoResponse, NoRr)
       ELSE
           /\ last' = Quiet
           /\ UNCHANGED <<auth, ss, user_oauth, grants>>
    /\ UNCHANGED <<now, cfg, query_params, pc, env, used>>
    /\ app' = Idle
    /\ UNCHANGED <<undo_worklog, jira, job>>

\* The script run ends (its last statement, or an st.stop()).
EndRun(s) ==
    /\ pc[s] = "app"
    /\ pc' = [pc EXCEPT ![s] = "idle"]
    /\ last' = Quiet
    /\ UNCHANGED <<now, cfg, ss, auth, query_params, user_oauth, grants, env, used>>
    /\ app' = Idle
    /\ UNCHANGED <<undo_worklog, jira, job>>

\* ------------------------------------------------------------ app.py
\* user_email or profile.get('emailAddress', '')
Identity(user_email, profile_email) ==
    IF user_email # "" THEN user_email ELSE profile_email

\* The token endpoint's answer get_headers() may need in session s.
RefreshAnswers(s) ==
    IF auth[s]._token # None /\ NearExpiry(auth[s], now)
    THEN TokenResponses(grants, env) ELSE {NoResponse}

\* What a tracker call of session s does to the session manager: its
\* get_headers() (g, answered tr), if the call is made at all.
AuthEffects(s, g, tr, called) ==
    IF called THEN
        /\ grants' = IF g.res.outcome = "refreshed" THEN grants + 1 ELSE grants
        /\ auth' = [auth EXCEPT ![s] = g.res.auth]
        /\ ss' = [ss EXCEPT ![s] = g.res.ss]
        /\ user_oauth' = g.res.rows
        /\ last' = Did("get_headers", s, g.res.outcome, g.res.ret, g.res.posts, g.calls,
                        g.headers, None, None,
                        IF g.res.posts # <<>> THEN tr ELSE NoResponse, NoRr)
    ELSE UNCHANGED <<grants, auth, ss, user_oauth, last>>

\* a request on a worklog, as the tracker sees it
WorklogReq(method, issue_key, worklog_id, seconds) ==
    [method |-> method, issue_key |-> issue_key, worklog_id |-> worklog_id,
     seconds |-> seconds]

\* The single-worklog form is submitted ("Worklog anlegen"): add_worklog,
\* then set_last_worklog if it succeeded. An exception ends the script run.
SubmitWorklog(s) ==
    /\ pc[s] = "app"
    /\ \E issue_choice \in Issues, user_email \in env.emails,
          profile_email \in ProfileEmails, dur_quarters \in {8},
          tr \in RefreshAnswers(s), resp \in AddWorklogResponses(jira) :
         LET g == GetHeaders(cfg, auth[s], ss[s], user_oauth, tr, now)
             r == ApiReq(g, resp)
             email == Identity(user_email, profile_email)
             seconds == dur_quarters * 15 * 60
             req == WorklogReq("POST", issue_choice, None, seconds) IN
         /\ ~r.sent => resp.kind = "timeout"
         /\ AuthEffects(s, g, tr, TRUE)
         /\ jira' = IF r.sent THEN Tracker(jira, "POST", issue_choice, None, resp) ELSE jira
         /\ undo_worklog' = IF r.ok
                             THEN SetLastWorklog(undo_worklog, email, r.id, issue_choice, now)
                             ELSE undo_worklog
         /\ pc' = [pc EXCEPT ![s] = IF r.raised THEN "idle" ELSE "app"]
         /\ app' = Handled("add_worklog", s, email,
                           IF r.raised THEN "raised" ELSE IF r.ok THEN "created" ELSE "error",
                           IF r.sent THEN <<req>> ELSE <<>>, <<>>, None)
    /\ UNCHANGED <<now, cfg, query_params, env, used, job>>

\* "Letzten Worklog rückgängig machen" is pressed: get_last_worklog, then
\* delete_worklog, then clear_last_worklog if the deletion succeeded.
Undo(s) ==
    /\ pc[s] = "app"
    /\ \E user_email \in env.emails, profile_email \in ProfileEmails :
         LET email == Identity(user_email, profile_email)
             found == GetLastWorklog(undo_worklog, email) IN
         IF found = None THEN
             /\ app' = Handled("undo", s, email, "none", <<>>, <<>>, None)
             /\ AuthEffects(s, NoResponse, NoResponse, FALSE)
             /\ UNCHANGED <<jira, undo_worklog, pc>>
         ELSE
           \E tr \in RefreshAnswers(s),
              resp \in DeleteWorklogResponses(jira, found[1].issue_key, found[1].worklog_id) :
             LET g == GetHeaders(cfg, auth[s], ss[s], user_oauth, tr, now)
                 r == ApiReq(g, resp)
                 req == WorklogReq("DELETE", found[1].issue_key, found[1].worklog_id, 0) IN
             /\ ~r.sent => resp.kind = "timeout"
             /\ AuthEffects(s, g, tr, TRUE)
             /\ jira' = IF r.sent
                        THEN Tracker(jira, "DELETE", found[1].issue_key, found[1].worklog_id, resp)
                        ELSE jira
             /\ undo_worklog' = IF r.ok THEN ClearLastWorklog(undo_worklog, email)
                                 ELSE undo_worklog
             /\ pc' = [pc EXCEPT ![s] = IF r.raised THEN "idle" ELSE "app"]
             /\ app' = Handled("undo", s, email,
                               IF r.raised THEN "raised" ELSE IF r.ok THEN "deleted" ELSE "error",
                               IF r.sent THEN <<req>> ELSE <<>>, <<>>, None)
    /\ UNCHANGED <<now, cfg, query_params, env, used, job>>

\* "Import starten" is pressed for an uploaded file that parsed and
\* validated without errors: the loop starts.
\* A script run with a file in the uploader and no button pressed: the file
\* is parsed and validated, the errors are shown, and the import button is
\* drawn, disabled if there are errors.
UploadCsv(s) ==
    /\ pc[s] = "app"
    /\ \E df \in CsvFiles :
         LET errs == ValidateWorklogRows(df) IN
         app' = Called("csv_upload", <<df>>, [errs |-> errs, disabled |-> errs # {}])
    /\ UNCHANGED <<now, cfg, ss, auth, query_params, pc, user_oauth, grants, env, used,
                   last, undo_worklog, jira, job>>

StartImport(s) ==
    /\ pc[s] = "app"
    /\ \E df \in CsvFiles :
         /\ ValidateWorklogRows(df) = {}
         /\ job' = [job EXCEPT ![s] = [rows |-> df, i |-> 1, results |-> <<>>]]
    /\ pc' = [pc EXCEPT ![s] = "import"]
    /\ app' = Handled("csv_import", s, "", "started", <<>>, <<>>, None)
    /\ UNCHANGED <<now, cfg, ss, auth, query_params, user_oauth, grants, env, used, last,
                   undo_worklog, jira>>

\* One pass of the import loop: add_worklog for the row, its result
\* appended to results. An exception ends the script run.
ImportRow(s) ==
    /\ pc[s] = "import"
    /\ job[s].i <= Len(job[s].rows)
    /\ \E tr \in RefreshAnswers(s), resp \in AddWorklogResponses(jira) :
         LET row == job[s].rows[job[s].i]
             issue_key == row.Ticketnummer
             seconds == CsvSeconds(row.hours)
             g == GetHeaders(cfg, auth[s], ss[s], user_oauth, tr, now)
             r == ApiReq(g, resp)
             req == WorklogReq("POST", issue_key, None, seconds)
             results == Append(job[s].results,
                               [issue_key |-> issue_key, ok |-> r.ok, id |-> r.id]) IN
         /\ ~r.sent => resp.kind = "timeout"
         /\ AuthEffects(s, g, tr, TRUE)
         /\ jira' = IF r.sent THEN Tracker(jira, "POST", issue_key, None, resp) ELSE jira
         /\ IF r.raised THEN
                /\ job' = [job EXCEPT ![s] = NoJob]
                /\ pc' = [pc EXCEPT ![s] = "idle"]
                /\ app' = Handled("csv_import", s, "", "raised",
                                  IF r.sent THEN <<req>> ELSE <<>>, job[s].results, None)
            ELSE
                /\ job' = [job EXCEPT ![s].i = @ + 1, ![s].results = results]
                /\ pc' = pc
                /\ app' = Handled("csv_import", s, "", "row", <<req>>, results, None)
    /\ UNCHANGED <<now, cfg, query_params, env, used, undo_worklog>>

\* the issue keys of the results that failed, in order
RECURSIVE Failed(_)
Failed(results) ==
    IF results = <<>> THEN <<>>
    ELSE (IF Head(results).ok THEN <<>> ELSE <<Head(results).issue_key>>)
         \o Failed(Tail(results))

\* The import loop is through: ok_count of len(results) reported, and the
\* failures listed.
FinishImport(s) ==
    /\ pc[s] = "import"
    /\ job[s].i > Len(job[s].rows)
    /\ LET results == job[s].results
           fail == Failed(results) IN
       app' = Handled("csv_import", s, "", "finished", <<>>, results,
                      Some([ok_count |-> Len(results) - Len(fail),
                            total |-> Len(results), fail |-> fail]))
    /\ job' = [job EXCEPT ![s] = NoJob]
    /\ pc' = [pc EXCEPT ![s] = "app"]
    /\ UNCHANGED <<now, cfg, ss, auth, query_params, user_oauth, grants, env, used, last,
                   undo_worklog, jira>>

\* ------------------------------------------------------------ app.py, the P-label tab
\* str.upper(), on the letters the texts here are made of
Upper(s) == [i \in DOMAIN s |-> CASE s[i] = "p" -> "P" [] s[i] = "f" -> "F" [] s[i] = "o" -> "O" [] OTHER -> s[i]]

\* ", ".join(labels)
RECURSIVE Join(_)
Join(labels) ==
    IF labels = <<>> THEN <<>>
    ELSE IF Len(labels) = 1 THEN labels[1]
    ELSE labels[1] \o <<",", " ">> \o Join(Tail(labels))

\* text.split(", ")
RECURSIVE Split(_)
Split(text) ==
    LET at == {i \in 1..(Len(text) - 1) : text[i] = "," /\ text[i + 1] = " "} IN
    IF at = {} THEN <<text>>
    ELSE LET i == CHOOSE k \in at : \A m \in at : k <= m IN
         <<SubSeq(text, 1, i - 1)>> \o Split(SubSeq(text, i + 2, Len(text)))

\* row["Neu-Labels"].split(", ") if row["Neu-Labels"] else []
RowLabels(text) == IF text # <<>> THEN Split(text) ELSE <<>>

\* What the "Neues P-Label" field holds, as typed, and new_plabel made of it
EnteredLabels ==
    {<<"P", "1", "1", "1", "1", "1", "1">>,
     <<"p", "2", "2", "2", "2", "2", "2", " ">>,
     <<"f", "o", "o">>}
NewPLabel(text) == Upper(Strip(text))

\* What search_issues returns: issues in key order, each with its labels
IssueLabels ==
    {<<>>,
     <<<<"f", "o", "o">>>>,
     <<<<"P", "1", "1", "1", "1", "1", "1">>, <<"f", "o", "o">>, <<"b", "a", "r">>>>}
SearchResults ==
    {<<>>} \cup {<<[key |-> "T-1", labels |-> l]>> : l \in IssueLabels}
          \cup {<<[key |-> "T-1", labels |-> l1], [key |-> "T-2", labels |-> l2]>> :
                   l1 \in IssueLabels, l2 \in IssueLabels}

\* candidates: by the mode chosen, the issues without a P-label, all
\* issues, or the ones ticked in the table
Candidates(issues_pl, option, picked_keys) ==
    CASE option = 1 -> SelectSeq(issues_pl, LAMBDA it : ExtractPLabels(it.labels) = <<>>)
      [] option = 2 -> issues_pl
      [] OTHER -> SelectSeq(issues_pl, LAMBDA it : it.key \in picked_keys)

\* preview_rows of the candidates. (old_labels is history: the labels the
\* row was made of; the table holds them joined only.)
PreviewRows(candidates, new_plabel) ==
    [i \in DOMAIN candidates |->
        LET old_labels == candidates[i].labels
            new_labels == ComputeNewLabels(old_labels, new_plabel) IN
        [Key |-> candidates[i].key,
         AltLabels |-> Join(old_labels),
         NeuLabels |-> Join(new_labels),
         old_labels |-> old_labels]]

\* What the tracker may answer to update_issue_labels
UpdateLabelsResponses ==
    TrackerFailures \cup {[kind |-> "http", status |-> 204, id |-> None]}

\* "Vorschau erzeugen" is pressed: the preview is built of the candidates
\* and stored in the session. The button is disabled without candidates or
\* with a new label that is no P-label.
Preview(s) ==
    /\ pc[s] = "app"
    /\ \E issues_pl \in SearchResults, option \in 1..3, picked_keys \in SUBSET Issues,
          text \in EnteredLabels :
         LET new_plabel == NewPLabel(text)
             candidates == Candidates(issues_pl, option, picked_keys)
             rows == PreviewRows(candidates, new_plabel) IN
         /\ option # 3 => picked_keys = {}
         /\ candidates # <<>> /\ IsPLabel(new_plabel)
         /\ ss' = [ss EXCEPT ![s].pl_preview = Some(rows)]
         /\ app' = Handled("label_preview", s, "", "stored", <<>>, rows, Some(new_plabel))
    /\ UNCHANGED <<now, cfg, auth, query_params, pc, user_oauth, grants, env, used, last,
                   undo_worklog, jira, job>>

\* "Anwenden (Bulk)" is pressed: the loop over the rows of the stored
\* preview starts. The button is disabled without a stored preview or with
\* a new label, as entered now, that is no P-label.
ApplyStart(s) ==
    /\ pc[s] = "app"
    /\ ss[s].pl_preview # None
    /\ \E text \in EnteredLabels :
         /\ IsPLabel(NewPLabel(text))
         /\ job' = [job EXCEPT ![s] = [rows |-> ss[s].pl_preview[1], i |-> 1,
                                       results |-> <<>>,
                                       new_plabel |-> NewPLabel(text)]]
    /\ pc' = [pc EXCEPT ![s] = "apply"]
    /\ app' = Handled("label_apply", s, "", "started", <<>>, <<>>, None)
    /\ UNCHANGED <<now, cfg, ss, auth, query_params, user_oauth, grants, env, used, last,
                   undo_worklog, jira>>

\* One pass of the apply loop: update_issue_labels for the row, a failure
\* appended to errs. An exception ends the script run.
ApplyRow(s) ==
    /\ pc[s] = "apply"
    /\ job[s].i <= Len(job[s].rows)
    /\ \E tr \in RefreshAnswers(s), resp \in UpdateLabelsResponses :
         LET row == job[s].rows[job[s].i]
             g == GetHeaders(cfg, auth[s], ss[s], user_oauth, tr, now)
             r == ApiReq(g, resp)
             req == [method |-> "PUT", issue_key |-> row.Key,
                     labels |-> RowLabels(row.NeuLabels)]
             results == Append(job[s].results,
                               [issue_key |-> row.Key, ok |-> r.ok, id |-> None]) IN
         /\ ~r.sent => resp.kind = "timeout"
         /\ AuthEffects(s, g, tr, TRUE)
         /\ IF r.raised THEN
                /\ job' = [job EXCEPT ![s] = NoJob]
                /\ pc' = [pc EXCEPT ![s] = "idle"]
                /\ app' = Handled("label_apply", s, "", "raised",
                                  IF r.sent THEN <<req>> ELSE <<>>, job[s].results, None)
            ELSE
                /\ job' = [job EXCEPT ![s].i = @ + 1, ![s].results = results]
                /\ pc' = pc
                /\ app' = Handled("label_apply", s, "", "row", <<req>>, results, None)
    /\ UNCHANGED <<now, cfg, query_params, env, used, undo_worklog, jira>>

\* The apply loop is through: the successes of the total are reported, the
\* failures listed, and the preview is removed from the session.
ApplyFinish(s) ==
    /\ pc[s] = "apply"
    /\ job[s].i > Len(job[s].rows)
    /\ LET results == job[s].results
           fail == Failed(results) IN
       app' = Handled("label_apply", s, "", "finished", <<>>, results,
                      Some([ok_count |-> Len(results) - Len(fail),
                            total |-> Len(results), fail |-> fail]))
    /\ ss' = [ss EXCEPT ![s].pl_preview = None]
    /\ job' = [job EXCEPT ![s] = NoJob]
    /\ pc' = [pc EXCEPT ![s] = "app"]
    /\ UNCHANGED <<now, cfg, auth, query_params, user_oauth, grants, env, used, last,
                   undo_worklog, jira>>

\* ------------------------------------------------------------ the store's start
\* Storage(db_url) is constructed on a database: _init runs
StorageStart ==
    /\ \E use_pg \in BOOLEAN, db \in Databases :
         app' = Called("Storage", <<use_pg, db>>, StorageInit(use_pg, db))
    /\ UNCHANGED <<now, cfg, ss, auth, query_params, pc, user_oauth, grants, env, used,
                   last, undo_worklog, jira, job>>

\* the database the store works on after the step recorded in app
StoreNow == IF app.op = "Storage" THEN app.ret ELSE app.ret.db

\* save_oauth on the started store
SaveOauthCall ==
    /\ app.op \in {"Storage", "save_oauth", "set_last_worklog"}
    /\ Len(StoreNow.user_oauth.rows) < MaxStored
    /\ app' = Called("save_oauth", <<app.args[1], StoreNow>>, SaveOauthInsert(StoreNow))
    /\ UNCHANGED <<now, cfg, ss, auth, query_params, pc, user_oauth, grants, env, used,
                   last, undo_worklog, jira, job>>

\* set_last_worklog on the started store
SetLastWorklogCall ==
    /\ app.op \in {"Storage", "save_oauth", "set_last_worklog"}
    /\ Len(StoreNow.undo_worklog.rows) < MaxStored
    /\ app' = Called("set_last_worklog", <<app.args[1], StoreNow>>,
                     SetLastWorklogInsert(StoreNow))
    /\ UNCHANGED <<now, cfg, ss, auth, query_params, pc, user_oauth, grants, env, used,
                   last, undo_worklog, jira, job>>

\* ------------------------------------------------------------ label functions
\* is_p_label is called on a text
IsPLabelCall ==
    /\ \E s \in LabelTexts : app' = Called("is_p_label", <<s>>, IsPLabel(s))
    /\ UNCHANGED <<now, cfg, ss, auth, query_params, pc, user_oauth, grants, env, used,
                   last, undo_worklog, jira, job>>

\* compute_new_labels is called on an issue's labels and a new label
ComputeNewLabelsCall ==
    /\ \E old_labels \in LabelLists, new_plabel \in NewLabels :
         app' = Called("compute_new_labels", <<old_labels, new_plabel>>,
                       ComputeNewLabels(old_labels, new_plabel))
    /\ UNCHANGED <<now, cfg, ss, auth, query_params, pc, user_oauth, grants, env, used,
                   last, undo_worklog, jira, job>>

\* extract_p_labels and strip_p_labels are called on an issue's labels, and
\* strip_p_labels again on what they returned
ExtractStripCall ==
    /\ \E labels \in LabelLists :
         LET extracted == ExtractPLabels(labels)
             stripped == StripPLabels(labels) IN
         app' = Called("extract_strip", <<labels>>,
                       [extracted |-> extracted,
                        stripped |-> stripped,
                        stripped_again |-> StripPLabels(stripped),
                        extracted_stripped |-> StripPLabels(extracted)])
    /\ UNCHANGED <<now, cfg, ss, auth, query_params, pc, user_oauth, grants, env, used,
                   last, undo_worklog, jira, job>>

\* compute_new_labels is called on an issue's labels and a new label, and
\* again on the list it returned
ComputeNewLabelsAgainCall ==
    /\ \E old_labels \in LabelLists, new_plabel \in NewLabels :
         LET new_labels == ComputeNewLabels(old_labels, new_plabel) IN
         app' = Called("compute_new_labels_again", <<old_labels, new_plabel>>,
                       [first |-> new_labels,
                        again |-> ComputeNewLabels(new_labels, new_plabel)])
    /\ UNCHANGED <<now, cfg, ss, auth, query_params, pc, user_oauth, grants, env, used,
                   last, undo_worklog, jira, job>>

Next ==
    \/ Tick
    \/ \E s \in env.sessions : Construct(s)
    \/ \E s \in env.sessions : AutoRefresh(s)
    \/ \E s \in env.sessions : Render(s)
    \/ \E s \in env.sessions : ApiHeaders(s)
    \/ \E s \in env.sessions : HealthCheck(s)
    \/ \E s \in env.sessions : EndRun(s)

Init == InitIn(LoginScenario)
InitRefresh == InitIn(RefreshScenario)
InitShared == InitIn(SharedScenario)
InitLegacy == InitIn(LegacyScenario)
InitApp == InitIn(AppScenario)
InitCsv == InitIn(AppScenario)
InitStorage == InitIn(AppScenario)
InitBulk == InitIn(AppScenario)
InitLabels == InitIn(AppScenario)
InitLabelLists == InitIn(AppScenario)

\* the label functions, called on their own
NextCsv ==
    \/ \E s \in env.sessions : Construct(s)
    \/ \E s \in env.sessions : AutoRefresh(s)
    \/ \E s \in env.sessions : Render(s)
    \/ \E s \in env.sessions : EndRun(s)
    \/ \E s \in env.sessions : UploadCsv(s)
    \/ \E s \in env.sessions : StartImport(s)
    \/ \E s \in env.sessions : ImportRow(s)
    \/ \E s \in env.sessions : FinishImport(s)

NextStorage ==
    \/ StorageStart
    \/ SaveOauthCall
    \/ SetLastWorklogCall

NextBulk ==
    \/ \E s \in env.sessions : Construct(s)
    \/ \E s \in env.sessions : AutoRefresh(s)
    \/ \E s \in env.sessions : Render(s)
    \/ \E s \in env.sessions : EndRun(s)
    \/ \E s \in env.sessions : Preview(s)
    \/ \E s \in env.sessions : ApplyStart(s)
    \/ \E s \in env.sessions : ApplyRow(s)
    \/ \E s \in env.sessions : ApplyFinish(s)

NextLabelLists ==
    \/ ComputeNewLabelsAgainCall
    \/ ExtractStripCall

NextLabels ==
    \/ IsPLabelCall
    \/ ComputeNewLabelsCall

\* the script runs of a session and the handlers of the app body
NextApp ==
    \/ \E s \in env.sessions : Construct(s)
    \/ \E s \in env.sessions : AutoRefresh(s)
    \/ \E s \in env.sessions : Render(s)
    \/ \E s \in env.sessions : EndRun(s)
    \/ \E s \in env.sessions : SubmitWorklog(s)
    \/ \E s \in env.sessions : Undo(s)
    \/ \E s \in env.sessions : StartImport(s)
    \/ \E s \in env.sessions : ImportRow(s)
    \/ \E s \in env.sessions : FinishImport(s)

\* one session logging in
Spec == Init /\ [][Next]_vars
\* one session logging in and refreshing
SpecRefresh == InitRefresh /\ [][Next]_vars
\* two sessions on one store
SpecShared == InitShared /\ [][Next]_vars
\* one session and callbacks with and without a verifier in the state
SpecLegacy == InitLegacy /\ [][Next]_vars
\* one session working in the app body
SpecApp == InitApp /\ [][NextApp]_vars
\* one session uploading and importing CSV files
SpecCsv == InitCsv /\ [][NextCsv]_vars
\* the store started on a database and inserted into
SpecStorage == InitStorage /\ [][NextStorage]_vars
\* one session previewing and applying P-labels in bulk
SpecBulk == InitBulk /\ [][NextBulk]_vars
\* the label functions
SpecLabels == InitLabels /\ [][NextLabels]_vars
\* the label functions on lists of labels
SpecLabelLists == InitLabelLists /\ [][NextLabelLists]_vars

\* ------------------------------------------------------------ the claims
\* what the step just taken was
Ran(op, s) == last'.op = op /\ last'.s = s
\* the encrypted state a callback step was given, and its age
GivenState == last.enc[1]
GivenStateNext == last'.enc[1]
ValidState(e, key, t) == e.key = key /\ t - e.ts <= STATE_TTL
SessionFrame(s) ==
    /\ ss'[s]._oauth_token = ss[s]._oauth_token
    /\ ss'[s]._cloud = ss[s]._cloud
    /\ auth'[s]._token = ss[s]._oauth_token
    /\ auth'[s]._cloud = ss[s]._cloud
    /\ IsAuthenticated(auth'[s]) = (ss[s]._oauth_token # None)

\* C1: a callback whose state validation fails, whose token exchange is
\* answered with a non-success status, or whose tenant discovery fails or
\* yields an empty list leaves the session's token and tenant and every row
\* of the credential store as they were.
C1_NoPartialPersistence ==
    [][\A s \in Sessions :
        (/\ Ran("callback", s)
         /\ \/ ~ValidState(GivenStateNext, cfg.fernet_key, now)
            \/ last'.tr.kind = "http" /\ last'.tr.status # 200
            \/ last'.rr.kind = "timeout"
            \/ last'.rr.kind = "http" /\ (last'.rr.status # 200 \/ last'.rr.json = <<>>))
        => SessionFrame(s) /\ user_oauth' = user_oauth]_vars

\* a token was obtained, tenant discovery answered with an empty list, and
\* the session holds no token and the store no row, as before
C1_Witness ==
    /\ last.op = "callback"
    /\ last.tr.status = 200
    /\ last.rr.status = 200 /\ last.rr.json = <<>>
    /\ ss[last.s]._oauth_token = None
    /\ user_oauth = <<>>

\* C2: with a key configured, a callback whose state does not decrypt with
\* it, or was encrypted more than 600 seconds ago, ends with the
\* invalid-or-expired-state error and without a token-endpoint request; a
\* state encrypted with the key at most 599 seconds ago is accepted.
C2_StateValidation ==
    (last.op = "callback" /\ cfg.fernet_key # "") =>
        /\ (GivenState.key # cfg.fernet_key \/ now - GivenState.ts > STATE_TTL)
             => (last.outcome = "invalid_state" /\ last.posts = <<>>)
        /\ (GivenState.key = cfg.fernet_key /\ now - GivenState.ts <= STATE_TTL - 1)
             => (last.outcome # "invalid_state" /\ last.posts # <<>>)

\* a state of the configured key, 601 seconds old, was rejected
C2_Witness ==
    /\ last.op = "callback"
    /\ GivenState.key = cfg.fernet_key
    /\ now - GivenState.ts = STATE_TTL + 1
    /\ last.outcome = "invalid_state"

\* C3: once a callback has accepted an encrypted state, a later callback
\* presenting the same encrypted state is rejected and sends nothing to the
\* token endpoint.
C3_SingleUse ==
    [][\A s \in Sessions :
        (Ran("callback", s) /\ used[s] # None /\ last'.enc = used[s])
        => (last'.outcome = "invalid_state" /\ last'.posts = <<>>)]_vars

\* a step that ran refresh_token() in session s and got a token
Refreshed(s) == last'.s = s /\ last'.outcome = "refreshed"

\* C4: after a successful refresh the held token carries the new
\* access_token and expires_at, and the refresh_token of the response if it
\* has one, otherwise the refresh_token held before.
C4_RefreshTokenCarriedOver ==
    [][\A s \in Sessions : Refreshed(s) =>
        LET body == last'.tr.body[1]
            held == auth'[s]._token[1] IN
        /\ held.access_token = body.access_token
        /\ held.expires_at = now + ExpiresIn(body)
        /\ held.refresh_token = IF body.refresh_token # None
                                THEN body.refresh_token
                                ELSE auth[s]._token[1].refresh_token]_vars

\* C5: get_headers with a held token invokes refresh_token() once when
\* expires_at - now <= 60 and not at all when expires_at - now >= 61.
C5_RefreshAtMargin ==
    [][\A s \in Sessions :
        (Ran("get_headers", s) /\ auth[s]._token # None) =>
        /\ auth[s]._token[1].expires_at - now <= REFRESH_MARGIN => last'.calls = 1
        /\ auth[s]._token[1].expires_at - now >= REFRESH_MARGIN + 1
             => (last'.calls = 0 /\ last'.posts = <<>>)]_vars

\* get_headers found exactly 60 seconds left and invoked refresh_token(),
\* which sent its request (and was refused, so the token is as it was)
C5_Witness ==
    /\ last.op = "get_headers"
    /\ last.calls = 1
    /\ last.outcome = "refresh_failed"
    /\ Len(last.posts) = 1
    /\ auth[last.s]._token[1].expires_at - now = REFRESH_MARGIN

\* C6: refresh_token() with no refresh_token held returns False without a
\* token-endpoint request; answered with a non-success status it returns
\* False and leaves the object's token, the session's token and the store
\* unchanged, and get_headers then returns the bearer header of the
\* previous access token.
C6_FailedRefreshKeepsToken ==
    [][\A s \in Sessions :
        (last'.s = s /\ last'.calls = 1 /\ auth[s]._token # None) =>
        /\ auth[s]._token[1].refresh_token = None
             => (last'.ret = "False" /\ last'.posts = <<>> /\ grants' = grants)
        /\ (last'.tr.kind = "http" /\ last'.tr.status # 200) =>
             /\ last'.ret = "False"
             /\ auth'[s] = auth[s]
             /\ ss'[s] = ss[s]
             /\ user_oauth' = user_oauth
             /\ last'.op = "get_headers"
                  => last'.headers = Some(auth[s]._token[1].access_token)]_vars

\* get_headers ran a refresh that was refused, and returned the bearer
\* header of the token still held
C6_Witness ==
    /\ last.op = "get_headers"
    /\ last.tr.kind = "http" /\ last.tr.status = 400
    /\ last.ret = "False"
    /\ last.headers = Some(auth[last.s]._token[1].access_token)
    /\ ss[last.s]._oauth_token = auth[last.s]._token

\* a session without a refresh_token was asked to refresh and sent nothing
C6_WitnessSkipped ==
    /\ last.calls = 1
    /\ last.outcome = "refresh_skipped"
    /\ auth[last.s]._token[1].refresh_token = None

\* the identity a session's token was saved under
Owner(s) == used[s][1].payload.email
\* the most recent row of an identity
LatestRow(rows, email) ==
    rows[CHOOSE i \in DOMAIN rows :
            /\ rows[i].email = email
            /\ \A j \in DOMAIN rows : rows[j].email = email => j <= i]

\* C7: after every successful refresh the most recent row of the
\* refreshing session's identity holds the refreshed token.
C7_StoreMirrorsRefresh ==
    (last.outcome = "refreshed") =>
        LatestRow(user_oauth, Owner(last.s)).token_json = auth[last.s]._token[1]

\* C8: a successful callback appends exactly one row, under the identity of
\* the decrypted state, holding the obtained token with expires_at = time
\* of the exchange + expires_in and the first tenant of the
\* accessible-resources list; the session holds the same token and tenant.
C8_LoginPersisted ==
    [][\A s \in Sessions :
        (Ran("callback", s) /\ last'.outcome = "ok") =>
        LET body == last'.tr.body[1]
            row == user_oauth'[Len(user_oauth')] IN
        /\ Len(user_oauth') = Len(user_oauth) + 1
        /\ SubSeq(user_oauth', 1, Len(user_oauth)) = user_oauth
        /\ row.email = GivenStateNext.payload.email
        /\ row.token_json.access_token = body.access_token
        /\ row.token_json.refresh_token = body.refresh_token
        /\ row.token_json.expires_at =
             now + (IF body.expires_in = None THEN DEFAULT_EXPIRES_IN
                                              ELSE body.expires_in[1])
        /\ row.cloud_json.id = last'.rr.json[1]
        /\ ss'[s]._oauth_token = Some(row.token_json)
        /\ ss'[s]._cloud = Some(row.cloud_json)
        /\ auth'[s]._token = Some(row.token_json)
        /\ auth'[s]._cloud = Some(row.cloud_json)]_vars

\* a login succeeded against a list of two tenants, with an expires_in in
\* the response, and the store has its row
C8_Witness ==
    /\ last.op = "callback"
    /\ last.outcome = "ok"
    /\ Len(last.rr.json) = 2
    /\ last.tr.body[1].expires_in # None
    /\ Len(user_oauth) = 1

\* C9: render_login_flow with client id or redirect target unset, or with
\* no encryption key, offers no authorization link and leaves the session
\* state, the stored PKCE verifier included, unchanged.
C9_UnconfiguredNoOp ==
    [][\A s \in Sessions :
        (/\ Ran("render", s)
         /\ (cfg.client_id = "" \/ cfg.redirect_uri = "" \/ cfg.fernet_key = ""))
        => (last'.url = None /\ ss'[s] = ss[s])]_vars

\* C10: once a callback has used a verifier for a token exchange, the
\* session state no longer holds that verifier.
C10_VerifierDiscarded ==
    (last.op = "callback" /\ last.posts # <<>>) =>
        ss[last.s].pkce_verifier # Some(last.posts[1].data.code_verifier)

\* C11: every token-endpoint request, of the authorization-code exchange
\* and of the refresh grant alike, carries Basic authorization and no
\* client_secret in its body when a secret is configured, and client_id in
\* its body and no Authorization header when none is.
C11_ClientAuthMode ==
    \A i \in DOMAIN last.posts :
        LET req == last.posts[i] IN
        /\ req.data.grant_type \in {"authorization_code", "refresh_token"}
        /\ IF cfg.client_secret # ""
           THEN /\ req.authorization = "Basic"
                /\ "client_secret" \notin DOMAIN req.data
           ELSE /\ req.authorization = ""
                /\ "client_id" \in DOMAIN req.data
                /\ req.data.client_id = cfg.client_id

\* a confidential client sent a refresh grant with Basic authorization
C11_Witness ==
    /\ cfg.client_secret # ""
    /\ last.posts # <<>>
    /\ last.posts[1].data.grant_type = "refresh_token"
    /\ last.posts[1].authorization = "Basic"

\* a confidential client sent the authorization-code exchange
C11_WitnessExchange ==
    /\ cfg.client_secret # ""
    /\ last.posts # <<>>
    /\ last.posts[1].data.grant_type = "authorization_code"
    /\ last.posts[1].authorization = "Basic"

\* C12: a delivered callback is exchanged at most once: whatever the outcome
\* of handling it, its parameters are consumed, so a script run that finds
\* the parameters of a callback already handled sends no authorization-code
\* exchange for them.
C12_ExchangeOnce ==
    [][\A s \in Sessions :
        (/\ Ran("callback", s)
         /\ query_params[s] # NoParams
         /\ last'.enc = Some(query_params[s][1].state))
        => last'.posts = <<>>]_vars

\* the rows of identity u, and whether row i is the one appended last for u
RowsOf(rows, u) == {i \in DOMAIN rows : rows[i].email = u}
AppendedLast(rows, u, i) ==
    i \in RowsOf(rows, u) /\ \A j \in RowsOf(rows, u) : j <= i
\* a step that ran the undo handler / created a worklog
Undid == app'.op = "undo"

\* C13: get_last_worklog(u) returns the record appended last for u, by
\* insertion order whatever the seconds of the clock, and nothing iff u has
\* no record: the undo handler, which acts on what it returns, finds none
\* iff u has no row, and otherwise asks for the deletion of the worklog of
\* the row of u inserted last; and a record is inserted behind all others.
C13_PeekLatest ==
    [][/\ Undid =>
            LET u == app'.email IN
            IF RowsOf(undo_worklog, u) = {}
            THEN app'.outcome = "none" /\ app'.reqs = <<>>
            ELSE /\ app'.outcome # "none"
                 /\ \E i \in DOMAIN undo_worklog :
                      /\ AppendedLast(undo_worklog, u, i)
                      /\ app'.reqs[1].issue_key = undo_worklog[i].issue_key
                      /\ app'.reqs[1].worklog_id = undo_worklog[i].worklog_id
       /\ app'.outcome = "created" =>
            /\ Len(undo_worklog') = Len(undo_worklog) + 1
            /\ SubSeq(undo_worklog', 1, Len(undo_worklog)) = undo_worklog
            /\ undo_worklog'[Len(undo_worklog')].email = app'.email
      ]_vars

\* an undo found, of two records of one identity written in the same
\* second, the second one (its deletion was refused, so both are there)
C13_Witness ==
    /\ app.op = "undo" /\ app.outcome = "error"
    /\ Len(undo_worklog) = 2
    /\ undo_worklog[1].email = app.email /\ undo_worklog[2].email = app.email
    /\ undo_worklog[1].saved_at = undo_worklog[2].saved_at
    /\ undo_worklog[1].worklog_id # undo_worklog[2].worklog_id
    /\ app.reqs[1].worklog_id = undo_worklog[2].worklog_id

\* C14: clear_last_worklog(u) removes the record of u appended last and
\* nothing else: the earlier records of u and the records of every other
\* identity stay, in their order.
C14_ClearLatestOnly ==
    [][(Undid /\ app'.outcome = "deleted") =>
        \E i \in DOMAIN undo_worklog :
            /\ AppendedLast(undo_worklog, app'.email, i)
            /\ undo_worklog' = SubSeq(undo_worklog, 1, i - 1)
                               \o SubSeq(undo_worklog, i + 1, Len(undo_worklog))]_vars

\* an undo cleared the later of two records of one identity; the earlier
\* one is still there
C14_Witness ==
    /\ app.op = "undo" /\ app.outcome = "deleted"
    /\ Len(undo_worklog) = 1
    /\ undo_worklog[1].email = app.email
    /\ undo_worklog[1].worklog_id # app.reqs[1].worklog_id

\* C15: after a successful undo, a further undo of the same identity with
\* no worklog created in between deletes nothing and reports that there is
\* no last worklog.
C15_SingleSlotUndo ==
    [][(/\ app.op = "undo" /\ app.outcome = "deleted"
        /\ Undid /\ app'.email = app.email)
       => (app'.outcome = "none" /\ app'.reqs = <<>> /\ jira' = jira)]_vars

\* C16: on an undo request the latest undo record of the identity is
\* removed iff the tracker deleted the worklog; when the deletion fails the
\* table is unchanged, and when the identity has no record no deletion is
\* requested.
C16_ClearedIffDeleted ==
    [][Undid =>
        /\ (undo_worklog' # undo_worklog) <=> (jira'.worklogs # jira.worklogs)
        /\ jira'.worklogs # jira.worklogs =>
             /\ Len(undo_worklog') = Len(undo_worklog) - 1
             /\ GetLastWorklog(undo_worklog, app'.email)[1].worklog_id
                  = app'.reqs[1].worklog_id
             /\ jira.worklogs \ jira'.worklogs =
                  {[issue_key |-> app'.reqs[1].issue_key, id |-> app'.reqs[1].worklog_id]}
        /\ RowsOf(undo_worklog, app'.email) = {} => (app'.reqs = <<>> /\ jira' = jira)
      ]_vars

\* the tracker refused a deletion and the record is still the identity's
\* latest
C16_Witness ==
    /\ app.op = "undo" /\ app.outcome = "error"
    /\ app.reqs # <<>>
    /\ GetLastWorklog(undo_worklog, app.email) # None
    /\ GetLastWorklog(undo_worklog, app.email)[1].worklog_id = app.reqs[1].worklog_id

\* C17: every worklog the tracker creates, for the single-worklog form or
\* for a row of the CSV import, gets one undo record appended, with its
\* issue key and worklog id.
C17_CreationRecorded ==
    [][jira'.created = jira.created + 1 =>
        /\ Len(undo_worklog') = Len(undo_worklog) + 1
        /\ undo_worklog'[Len(undo_worklog')].issue_key = app'.reqs[1].issue_key
        /\ [issue_key |-> app'.reqs[1].issue_key,
            id |-> undo_worklog'[Len(undo_worklog')].worklog_id] \in jira'.worklogs]_vars

\* C18: when a bulk import is over, every row was attempted once, the error
\* list holds exactly the failed rows, and successes + failures = rows.
C18_BatchCompletes ==
    [][\A s \in Sessions :
        (pc[s] = "import" /\ pc'[s] # "import") =>
        /\ app'.report # None
        /\ Len(app'.results) = Len(job[s].rows)
        /\ \A i \in DOMAIN job[s].rows :
             app'.results[i].issue_key = job[s].rows[i].Ticketnummer
        /\ app'.report[1].fail = Failed(app'.results)
        /\ app'.report[1].total = Len(job[s].rows)
        /\ app'.report[1].ok_count + Len(app'.report[1].fail) = Len(job[s].rows)]_vars

\* t is s without its surrounding whitespace
IsTrimOf(t, s) ==
    \E i \in 1..(Len(s) + 1), j \in 0..Len(s) :
        /\ t = SubSeq(s, i, j)
        /\ \A k \in 1..(i - 1) : s[k] \in Whitespace
        /\ \A k \in (j + 1)..Len(s) : s[k] \in Whitespace
        /\ t # <<>> => (t[1] \notin Whitespace /\ t[Len(t)] \notin Whitespace)
\* an uppercase P followed by exactly six decimal digits
IsPAndSixDigits(t) ==
    /\ Len(t) = 7
    /\ t[1] = "P"
    /\ \A k \in 2..7 : t[k] \in Digits
IsStructured(s) == \E i \in 1..(Len(s) + 1), j \in 0..Len(s) :
                      IsTrimOf(SubSeq(s, i, j), s) /\ IsPAndSixDigits(SubSeq(s, i, j))

\* C19: compute_new_labels(old_labels, new_label) is the non-structured
\* labels of old_labels in their order, followed by new_label once if it is
\* non-empty and by nothing if it is empty; no structured label of
\* old_labels is left, however many there were.
C19_ComputeReplacement ==
    app.op = "compute_new_labels" =>
        LET old == app.args[1]
            new == app.args[2]
            kept == SelectSeq(old, LAMBDA l : ~IsStructured(l))
            n == Len(kept) IN
        /\ app.ret = kept \o (IF new = <<>> THEN <<>> ELSE <<new>>)
        /\ \A i \in 1..n : ~IsStructured(app.ret[i])
        /\ Len(app.ret) = n + (IF new = <<>> THEN 0 ELSE 1)

\* two structured labels around a plain one were replaced by a new one
C19_Witness ==
    /\ app.op = "compute_new_labels"
    /\ Len(app.args[1]) = 3
    /\ IsStructured(app.args[1][1]) /\ ~IsStructured(app.args[1][2])
    /\ IsStructured(app.args[1][3])
    /\ app.args[2] # <<>>
    /\ app.ret = <<app.args[1][2], app.args[2]>>

\* C20: is_p_label(s) is true iff s without its surrounding whitespace is
\* an uppercase P followed by exactly six decimal digits; a lowercase p,
\* five digits and seven digits are rejected.
C20_IsStructured ==
    app.op = "is_p_label" =>
        LET s == app.args[1] IN
        /\ app.ret = IsStructured(s)
        /\ (s # <<>> /\ s[1] = "p") => ~app.ret
        /\ \A n \in {P_LABEL_DIGITS - 1, P_LABEL_DIGITS + 1} :
             s = <<"P">> \o Rep("1", n) => ~app.ret

\* P and seven digits was rejected
C20_Witness ==
    /\ app.op = "is_p_label"
    /\ app.args[1] = <<"P">> \o Rep("1", P_LABEL_DIGITS + 1)
    /\ app.ret = FALSE

\* P and six digits between whitespace was accepted
C20_WitnessAccepted ==
    /\ app.op = "is_p_label"
    /\ app.args[1] = <<" ", "P">> \o Rep("1", P_LABEL_DIGITS) \o <<" ", "\n">>
    /\ app.ret = TRUE

\* The elements of labels at the positions in I, in their order in labels.
Pick(labels, I) == LET F[n \in 0..Len(labels)] == IF n = 0 THEN <<>> ELSE IF n \in I THEN Append(F[n - 1], labels[n]) ELSE F[n - 1] IN F[Len(labels)]

\* C21: extract_p_labels(L) and strip_p_labels(L) are subsequences of L in
\* L's order, every element of L is in exactly one of them (the structured
\* ones in the first), and strip_p_labels gives the same list when applied
\* again to its result and the empty list on what extract_p_labels returned.
C21_ExtractStripPartition ==
    app.op = "extract_strip" =>
        LET L == app.args[1]
            I == {i \in DOMAIN L : IsStructured(L[i])} IN
        /\ app.ret.extracted = Pick(L, I)
        /\ app.ret.stripped = Pick(L, DOMAIN L \ I)
        /\ app.ret.stripped_again = app.ret.stripped
        /\ app.ret.extracted_stripped = <<>>

\* C21 happens: a list with a structured label after an unstructured one and
\* a padded structured one is split
C21_Witness ==
    /\ app.op = "extract_strip"
    /\ Len(app.args[1]) = 3
    /\ app.ret.extracted = <<app.args[1][2], app.args[1][3]>>
    /\ app.ret.stripped = <<app.args[1][1]>>
    /\ app.args[1][3][1] = " "

\* C28: for a structured label p, compute_new_labels(L, p) holds exactly one
\* structured label, which is p and is its last element, and applying
\* compute_new_labels with p to that list returns the same list.
C28_OneStructuredLast ==
    (app.op = "compute_new_labels_again" /\ IsStructured(app.args[2])) =>
        LET new_labels == app.ret.first IN
        /\ new_labels # <<>>
        /\ new_labels[Len(new_labels)] = app.args[2]
        /\ {i \in DOMAIN new_labels : IsStructured(new_labels[i])} = {Len(new_labels)}
        /\ app.ret.again = new_labels

\* C28 happens: the new label replaces two structured labels, one of them
\* the new label with a blank before it, of a list that also holds another
\* label
C28_Witness ==
    /\ app.op = "compute_new_labels_again"
    /\ IsStructured(app.args[2])
    /\ Len(app.args[1]) = 3
    /\ Len(app.ret.first) = 2
    /\ \E i \in 1..3 : app.args[1][i] = <<" ">> \o app.args[2]

\* C22: a logout leaves the session and the object without token and
\* tenant, so that is_authenticated() is false and get_headers() returns
\* no headers and calls no refresh, and leaves every row of user_oauth and
\* of undo_worklog as it was.
C22_LogoutFrame ==
    [][\A s \in Sessions :
        (Ran("render", s) /\ last'.outcome = "logged_out") =>
            /\ ss'[s]._oauth_token = None /\ ss'[s]._cloud = None
            /\ auth'[s]._token = None /\ auth'[s]._cloud = None
            /\ ~IsAuthenticated(auth'[s])
            /\ LET g == GetHeaders(cfg, auth'[s], ss'[s], user_oauth', NoResponse, now') IN
               g.headers = None /\ g.calls = 0 /\ g.res.posts = <<>>
            /\ user_oauth' = user_oauth
            /\ undo_worklog' = undo_worklog]_vars

\* C22 happens: a session logs out while the store holds a token row and
\* an undo record
C22_Witness ==
    /\ last.op = "render" /\ last.outcome = "logged_out"
    /\ user_oauth # <<>>
    /\ undo_worklog # <<>>
    /\ ss[last.s]._oauth_token = None

\* C26: in every reachable state a session, and the object built from it,
\* holds a token exactly if it holds a resolved tenant, the two having been
\* set together and cleared together; an authenticated object has a tenant
\* id.
C26_TokenOnlyWithTenant ==
    \A s \in Sessions :
        /\ (ss[s]._oauth_token = None) <=> (ss[s]._cloud = None)
        /\ (auth[s]._token = None) <=> (auth[s]._cloud = None)
        /\ IsAuthenticated(auth[s]) => (auth[s]._cloud # None /\ auth[s]._cloud[1].id # "")

\* C26 happens: a refresh replaced the token of a session that was logged
\* in, and the tenant resolved at the login is still held
C26_Witness ==
    /\ last.outcome = "refreshed"
    /\ auth[last.s]._token[1].access_token = last.tr.body[1].access_token
    /\ auth[last.s]._cloud # None
    /\ ss[last.s]._cloud = auth[last.s]._cloud

\* C26 happens: a session that was logged in has logged out and holds
\* neither
C26_WitnessLoggedOut ==
    /\ last.op = "render" /\ last.outcome = "logged_out"
    /\ ss[last.s]._oauth_token = None /\ ss[last.s]._cloud = None
    /\ user_oauth # <<>>

\* C27: a refresh by the session of one identity leaves every row of
\* user_oauth that is stored under another identity as it was.
C27_RefreshOwnRowsOnly ==
    [][\A s \in Sessions : Refreshed(s) =>
        \A i \in DOMAIN user_oauth :
            user_oauth[i].email # Owner(s) => user_oauth'[i] = user_oauth[i]]_vars

\* C25: a callback with a valid state sends the token exchange with the
\* verifier of the decrypted state when the state carries one, with the
\* verifier of the session when the state carries none, and when neither
\* holds one sends nothing to the token endpoint and leaves the session
\* and the store as they were.
C25_VerifierSource ==
    [][\A s \in Sessions :
        (/\ Ran("callback", s)
         /\ cfg.fernet_key # ""
         /\ ValidState(GivenStateNext, cfg.fernet_key, now))
        => LET state == GivenStateNext.payload IN
           /\ state.code_verifier # None =>
                 /\ last'.posts # <<>>
                 /\ last'.posts[1].data.code_verifier = state.code_verifier[1]
           /\ (state.code_verifier = None /\ ss[s].pkce_verifier # None) =>
                 /\ last'.posts # <<>>
                 /\ last'.posts[1].data.code_verifier = ss[s].pkce_verifier[1]
           /\ (state.code_verifier = None /\ ss[s].pkce_verifier = None) =>
                 /\ last'.posts = <<>>
                 /\ ss'[s] = ss[s]
                 /\ SessionFrame(s)
                 /\ user_oauth' = user_oauth]_vars

\* C25 happens: the state carried a verifier other than the session's, and
\* the exchange was sent with the state's
C25_Witness ==
    /\ last.op = "callback"
    /\ GivenState.payload.code_verifier # None
    /\ ss[last.s].pkce_verifier # None
    /\ ss[last.s].pkce_verifier # GivenState.payload.code_verifier
    /\ last.posts # <<>>
    /\ last.posts[1].data.code_verifier = GivenState.payload.code_verifier[1]

\* C25 happens: the state carried none and the exchange was sent with the
\* session's
C25_WitnessFallback ==
    /\ last.op = "callback"
    /\ GivenState.payload.code_verifier = None
    /\ last.posts # <<>>
    /\ last.posts[1].data.code_verifier = ss[last.s].pkce_verifier[1]

\* C25 happens: neither held one and nothing was sent
C25_WitnessNeither ==
    /\ last.op = "callback"
    /\ last.outcome = "pkce_missing"
    /\ GivenState.payload.code_verifier = None
    /\ ss[last.s].pkce_verifier = None
    /\ last.posts = <<>>

\* C23: a CSV file whose rows name a ticket can be imported, also when a
\* row's hours are below a quarter of an hour (0,10), and the worklog sent
\* for a row lasts a multiple of 900 seconds that is at least 900 and is
\* the one nearest to the row's hours, or 900 where that would be less.
C23_QuarterHourMinimum ==
    /\ (app.op = "csv_upload" /\ \A i \in DOMAIN app.args[1] : app.args[1][i].Ticketnummer # "")
          => ~app.ret.disabled
    /\ (app.op = "csv_import" /\ app.outcome = "row") =>
          LET row == job[app.s].rows[job[app.s].i - 1]
              exact == row.hours * 36
              seconds == app.reqs[1].seconds IN
          /\ seconds % QUARTER_SECONDS = 0
          /\ seconds >= QUARTER_SECONDS
          /\ \/ 2 * (seconds - exact) <= QUARTER_SECONDS /\ 2 * (exact - seconds) <= QUARTER_SECONDS
             \/ seconds = QUARTER_SECONDS /\ exact < QUARTER_SECONDS

\* C24: after the store is started on a database, with either backend,
\* both tables have every required column and the rows stored before are
\* as they were in the columns they had; and every insert after it names
\* only columns the table has.
C24_SchemaRepaired ==
    /\ app.op = "Storage" =>
          LET before == app.args[2]
              after == app.ret IN
          /\ REQUIRED_USER_OAUTH_COLS \subseteq after.user_oauth.cols
          /\ REQUIRED_UNDO_COLS \subseteq after.undo_worklog.cols
          /\ \A name \in {"user_oauth", "undo_worklog"} :
                /\ Len(after[name].rows) = Len(before[name].rows)
                /\ \A i \in DOMAIN before[name].rows, c \in before[name].cols :
                      /\ c \in after[name].cols
                      /\ after[name].rows[i][c] = before[name].rows[i][c]
    /\ app.op \in {"save_oauth", "set_last_worklog"} =>
          app.ret.insert_cols \subseteq app.args[2][app.ret.table].cols

\* C29: a pass of the bulk apply sends, for the issue of its row of the
\* stored preview, the list compute_new_labels gives for the issue's labels
\* and the new label entered when the apply was pressed; and once an apply
\* has ended, the preview is no longer stored.
C29_ApplySendsComputed ==
    /\ (app.op = "label_apply" /\ app.outcome = "row") =>
          LET j == job[app.s]
              row == j.rows[j.i - 1] IN
          /\ app.reqs[1].issue_key = row.Key
          /\ app.reqs[1].labels = ComputeNewLabels(row.old_labels, j.new_plabel)
    /\ (app.op = "label_apply" /\ app.outcome \in {"finished", "raised"}) =>
          ss[app.s].pl_preview = None

====
